---- MODULE Spec2Model ----
(***************************************************************************)
(* Model of ealib's digital-evolution scheduler and line-of-descent code   *)
(* (libea/include/ea/digital_evolution/schedulers.h):                      *)
(*   - weighted_round_robin::operator(), one update ("tick") of the        *)
(*     population, as a loop of single iterations;                         *)
(*   - lod_event (the inheritance hook), line_of_descent::lineage and      *)
(*     line_of_descent::mrca, with boost::shared_ptr use counts;           *)
(*   - track_fixation_events, run at the end of every update;              *)
(*   - line_of_descent::uniq and runiq, on a stored lineage.               *)
(*                                                                         *)
(* Spec runs whole updates from the seeded population.  TickSpec runs one  *)
(* update from an arbitrary population, HookSpec the inheritance hook and  *)
(* lineage extraction over births with one or two parents, LodSpec uniq    *)
(* and runiq over arbitrary stored lineages.                               *)
(*                                                                         *)
(* Organisms are numbered in order of creation.  Code indices are 0-based, *)
(* TLA+ sequences 1-based: population[i] of the code is population[i+1].   *)
(* Priorities are doubles; the model keeps them in halves (prio2 = 3 is    *)
(* the priority 1.5) so that the truncating cast to size_t is visible.     *)
(***************************************************************************)
EXTENDS Integers, Sequences, FiniteSets, TLC

\* ---- bounds of the model ------------------------------------------------
MaxOrg == 3          \* organisms ever created (ancestor included)
MaxUpdate == 2       \* updates run
MaxTimeSlice == 3    \* SCHEDULER_TIME_SLICE ranges over 1..MaxTimeSlice
MaxResSlice == 2     \* SCHEDULER_RESOURCE_SLICE ranges over 1..MaxResSlice
MaxPopSize == 2      \* POPULATION_SIZE ranges over 1..MaxPopSize
MaxLen == 4          \* length of a stored lineage (LodSpec)
MaxRepr == 2         \* distinct representations (LodSpec)
MaxHookCalls == 2    \* calls of the inheritance hook for one birth (HookSpec)

Orgs == 1..MaxOrg
Unset == -1          \* FIXATION_TIME absent from the meta-data
Nodes == 1..MaxLen   \* the organisms of a stored lineage (LodSpec)

VARIABLES
  population,     \* ea.population(): sequence of individual_ptr_type
  alive,          \* p->alive()
  prio2,          \* p->priority(), in halves
  parents,        \* p->lod_parents()
  created,        \* number of organisms created so far
  fixation_time,  \* FIXATION_TIME meta-data of each organism, or Unset
  current_update, \* ea.current_update()
  time_slice, resource_slice, pop_size, accessor,   \* configuration
  N, budget, ncycles_per_period,                    \* constants of one update
  consumed, last_period, i, deadcount,              \* locals of the loop
  pc,             \* position: "idle", "loop", "done", "trap", "abort"
  updates,        \* periods for which ea.resources().update was called, in order
  maxpos,         \* highest position of the population looked up in this update
  lastn,          \* the quantum of the latest execute call of this update
  odd,            \* TRUE iff the loop has made an odd number of iterations
  depth,          \* number of parent steps to the ancestor, recorded at birth
  granted,        \* cycles each living organism was granted by the execute calls of
                  \* this update (0 for the dead)
  alive_at_start, \* number of living organisms when this update started
  executed,       \* TRUE iff execute was called in this update
  _lod,           \* line_of_descent::_lod, the stored lineage
  repr,           \* (*i)->repr() of the organisms of the stored lineage
  lod_before,     \* _lod as it was before the latest uniq/runiq/lineage call
  lodop,          \* the latest call on _lod: "none", "uniq", "runiq", "lineage"
  again,          \* TRUE iff the call before the latest was the same call
  pending         \* the birth in progress: <<parents, offspring, hook calls>>, or <<>>

config == <<time_slice, resource_slice, pop_size, accessor>>
organisms == <<alive, prio2, parents, created, depth>>
locals == <<N, budget, ncycles_per_period, consumed, last_period, i, deadcount>>
ghosts == <<updates, maxpos, lastn, odd, granted, alive_at_start, executed>>
lodvars == <<_lod, repr, lod_before, lodop, again>>
vars == <<population, organisms, fixation_time, current_update, config,
          locals, pc, ghosts, lodvars, pending>>

\* ---- helpers --------------------------------------------------------------
Range(s) == {s[k] : k \in 1..Len(s)}

Min(a, b) == IF a < b THEN a ELSE b

\* std::random_shuffle: any permutation of the population
Shuffles(s) == {q \in [1..Len(s) -> Range(s)] : \A a, b \in 1..Len(s) : a # b => q[a] # q[b]}

\* static_cast<std::size_t>(double): truncation toward zero of a non-negative double
CastSizeT(p2) == p2 \div 2

\* access::fixed_priority returns 1.0, access::priority the stored priority
Acc(p) == IF accessor = "fixed" THEN 2 ELSE prio2[p]

\* (variant: POPULATION_SIZE is taken whatever the size of the population)
EffPopulationSizeNoMin(pop) == pop_size

\* std::min(population.size(), POPULATION_SIZE), in unsigned int
EffPopulationSize(pop) == Min(Len(pop), pop_size)

\* time_slice * eff_population_size is an unsigned int product, widened to
\* long; it wraps at 2^32, far above the products of this model
Budget(pop) == time_slice * EffPopulationSize(pop)

\* long ncycles_per_period = budget * (1.0/resource_slice): the double product
\* truncated.  For budget < 49 and resource_slice < 49 the truncated product
\* equals the integer quotient.
NcyclesPerPeriod(b) == b \div resource_slice

\* ---- ancestry graph and shared_ptr use counts ---------------------------------
\* the organisms reachable from x by parent links, x included
RECURSIVE AncOrSelf(_)
AncOrSelf(x) == {x} \cup UNION {AncOrSelf(q) : q \in parents[x]}

\* An organism object exists as long as a shared_ptr holds it: a slot of the
\* population, or the parent set of an organism that itself still exists.
Extant(pop) == UNION {AncOrSelf(pop[k]) : k \in 1..Len(pop)}

\* shared_ptr copies of x held by the data structures: population slots and
\* the parent sets (_lod_parents) of existing organisms
Holders(x, pop) ==
  Cardinality({k \in 1..Len(pop) : pop[k] = x})
  + Cardinality({y \in Extant(pop) : x \in parents[y]})

\* use_count() of x while mrca runs: the holders plus those of mrca's three
\* local shared_ptr variables (offspring, parent, m) that point to x
UseCount(x, pop, loc) ==
  Holders(x, pop) + Cardinality({k \in 1..Len(loc) : loc[k] = x})

\* organism_lod::has_parents
HasParents(x) == Cardinality(parents[x]) > 0

\* organism_lod::lod_parent: *_lod_parents.begin(), the first element of the
\* std::set; organisms are ordered by their number here
LodParent(x) == CHOOSE q \in parents[x] : \A r \in parents[x] : q <= r

\* (variant: a parent that is already in the set is taken out of it)
LodEventToggle(ps, offspring, par) ==
  [par EXCEPT ![offspring] = (par[offspring] \ ps) \cup (ps \ par[offspring])]

\* (variant: only the first parent is inserted)
LodEventFirstOnly(ps, offspring, par) ==
  [par EXCEPT ![offspring] =
     par[offspring] \cup {CHOOSE q \in ps : \A r \in ps : q <= r}]

\* lod_event::operator(): insert every parent into the offspring's parent set
LodEvent(ps, offspring, par) == [par EXCEPT ![offspring] = par[offspring] \cup ps]

\* (variant: parents are pushed at the back)
RECURSIVE LineageWalkPushBack(_, _)
LineageWalkPushBack(p, l) ==
  IF Cardinality(parents[p]) > 0
  THEN LET q == LodParent(p) IN LineageWalkPushBack(q, l \o <<q>>)
  ELSE l

\* line_of_descent::lineage: push p, then push_front each parent up to the root
RECURSIVE LineageWalk(_, _)
LineageWalk(p, l) ==
  IF Cardinality(parents[p]) > 0
  THEN LET q == LodParent(p) IN LineageWalk(q, <<q>> \o l)
  ELSE l

Lineage(p) == LineageWalk(p, <<p>>)

\* one comparison of mrca's loop: the new value of m
MrcaPick(offspring, parent, m, pop) ==
  LET uo == UseCount(offspring, pop, <<offspring, parent, m>>)
      up == UseCount(parent, pop, <<offspring, parent, m>>)
  IN IF up < uo THEN offspring
     ELSE IF up > uo THEN parent
     ELSE m

\* line_of_descent::mrca: the walk from the first member of the population
RECURSIVE MrcaWalk(_, _, _)
MrcaWalk(offspring, m, pop) ==
  IF HasParents(offspring)
  THEN LET parent == LodParent(offspring)
       IN MrcaWalk(parent, MrcaPick(offspring, parent, m, pop), pop)
  ELSE m

Mrca(pop) == MrcaWalk(pop[1], pop[1], pop)

\* (variant: every node of the lineage is stamped, stamped before or not)
RECURSIVE StampWalkOverwrite(_, _, _, _)
StampWalkOverwrite(l, k, fix, now) ==
  IF k = 0 THEN fix
  ELSE StampWalkOverwrite(l, k - 1, [fix EXCEPT ![l[k]] = now], now)

\* (variant: only the most recent node of the lineage is looked at)
StampWalkTipOnly(l, k, fix, now) ==
  IF k = 0 THEN fix
  ELSE IF fix[l[k]] = Unset THEN [fix EXCEPT ![l[k]] = now] ELSE fix

\* track_fixation_events::operator(): the reverse walk over the lineage,
\* from position k down, stamping until the first stamped node
RECURSIVE StampWalk(_, _, _, _)
StampWalk(l, k, fix, now) ==
  IF k = 0 THEN fix
  ELSE IF fix[l[k]] = Unset
       THEN StampWalk(l, k - 1, [fix EXCEPT ![l[k]] = now], now)
       ELSE fix

\* ---- line_of_descent::uniq and runiq ---------------------------------------------
\* std::list::erase of the element at position k
Erase(l, k) == SubSeq(l, 1, k - 1) \o SubSeq(l, k + 1, Len(l))

\* (variant: the later node of an equal pair is erased)
RECURSIVE UniqLoopEraseLater(_, _, _)
UniqLoopEraseLater(l, back, it) ==
  IF it > Len(l) THEN l
  ELSE IF repr[l[it]] = repr[l[back]]
       THEN UniqLoopEraseLater(Erase(l, it), back, it)
       ELSE UniqLoopEraseLater(l, it, it + 1)

\* (variant: after an erase the positions are not moved down, so that the
\* node after the erased pair is passed over)
RECURSIVE UniqLoopSkip(_, _, _)
UniqLoopSkip(l, back, it) ==
  IF it > Len(l) THEN l
  ELSE IF repr[l[it]] = repr[l[back]]
       THEN UniqLoopSkip(Erase(l, back), it, it + 1)
       ELSE UniqLoopSkip(l, it, it + 1)

\* the for loop of uniq.  The iterators back and i (written it) are
\* positions of the list, end() the position after the last.  back is the
\* node before i: erasing back moves i one position down; then back = i, ++i.
RECURSIVE UniqLoop(_, _, _)
UniqLoop(l, back, it) ==
  IF it = Len(l) + 1 THEN l
  ELSE IF repr[l[it]] = repr[l[back]]
       THEN UniqLoop(Erase(l, back), it - 1, it)
       ELSE UniqLoop(l, it, it + 1)

\* (variant: lists of two nodes are left alone)
UniqLongOnly(l) == IF Len(l) > 2 THEN UniqLoop(l, 1, 2) ELSE l

\* line_of_descent::uniq
Uniq(l) == IF Len(l) > 1 THEN UniqLoop(l, 1, 2) ELSE l

\* the for loop of runiq: back is the node after i, erasing back leaves i
\* in place; then back = i, --i; the loop stops when i is begin()
RECURSIVE RuniqLoop(_, _, _)
RuniqLoop(l, back, it) ==
  IF it = 1 THEN l
  ELSE IF repr[l[it]] = repr[l[back]]
       THEN RuniqLoop(Erase(l, back), it, it - 1)
       ELSE RuniqLoop(l, it, it - 1)

\* line_of_descent::runiq
Runiq(l) == IF Len(l) > 1 THEN RuniqLoop(l, Len(l), Len(l) - 1) ELSE l

\* (variant: the old population is kept as it is)
RebuildKeepAll(pop) == pop

\* (variant: only the members the update started with are looked at)
RebuildPreTick(pop) == SelectSeq(SubSeq(pop, 1, Min(N, Len(pop))), LAMBDA p : alive[p])

\* the population rebuilt at the end of an update: the living, in order
Rebuild(pop) == SelectSeq(pop, LAMBDA p : alive[p])

\* (variant: the loop goes on while consumed <= budget)
LoopCondInclusive == consumed <= budget /\ deadcount < N

\* (variant: the loop goes on while deadcount <= N)
LoopCondDeadInclusive == consumed < budget /\ deadcount <= N

\* the loop condition of weighted_round_robin
LoopCond == consumed < budget /\ deadcount < N

\* (variant: every organism is taken to be alive)
IsAliveAlways(p) == TRUE

\* p->alive(), the test of the loop
IsAlive(p) == alive[p]

\* (variant: the index wraps at the current size of the population)
NextIndexCurrentSize(k) == (k + 1) % Len(population)

\* the next round-robin index
NextIndex(k) == (k + 1) % N

\* (variant: the resource update is made in every iteration)
NewPeriodAlways(period) == TRUE

\* the test that guards ea.resources().update
NewPeriod(period) == period # last_period

\* priorities the ancestor may carry: 0.5 and 2.5 (quanta of 0 and 2 cycles);
\* the fixed accessor never reads the priority, which is then left at 1.0
PrioChoices == IF accessor = "fixed" THEN {2} ELSE {1, 5}

\* ---- initial state ---------------------------------------------------------------
\* no lineage is stored and no birth is in progress
LodUnused ==
  /\ _lod = <<>> /\ lod_before = <<>> /\ lodop = "none" /\ again = FALSE
  /\ repr = [x \in Nodes |-> 0]
  /\ pending = <<>>

\* The population is seeded with the ancestor, organism 1, alone.
Init ==
  /\ time_slice \in 1..MaxTimeSlice
  /\ resource_slice \in 1..MaxResSlice
  /\ pop_size \in 1..MaxPopSize
  /\ accessor \in {"fixed", "priority"}
  /\ created = 1
  /\ population = <<1>>
  /\ parents = [x \in Orgs |-> {}]
  /\ depth = [x \in Orgs |-> 0]
  /\ alive = [x \in Orgs |-> x = 1]
  /\ \E pr \in PrioChoices : prio2 = [x \in Orgs |-> IF x = 1 THEN pr ELSE 0]
  /\ fixation_time = [x \in Orgs |-> Unset]
  /\ current_update = 0
  /\ N = 0 /\ budget = 0 /\ ncycles_per_period = 0
  /\ consumed = 0 /\ last_period = -1 /\ i = 0 /\ deadcount = 0
  /\ pc = "idle"
  /\ updates = <<>> /\ maxpos = 0 /\ lastn = 0 /\ odd = FALSE
  /\ granted = [x \in Orgs |-> 0] /\ alive_at_start = 0 /\ executed = FALSE
  /\ LodUnused

\* ---- weighted_round_robin::operator() ----------------------------------------
\* entry: shuffle, then the constants and locals of the update
TickStart ==
  /\ pc = "idle"
  /\ current_update < MaxUpdate
  /\ \E q \in Shuffles(population) :
       /\ population' = q
       /\ budget' = Budget(q)
       /\ ncycles_per_period' = NcyclesPerPeriod(Budget(q))
       /\ N' = Len(q)
  /\ consumed' = 0 /\ last_period' = -1 /\ i' = 0 /\ deadcount' = 0
  /\ pc' = "loop"
  /\ updates' = <<>> /\ maxpos' = 0 /\ lastn' = 0 /\ odd' = FALSE
  /\ granted' = [x \in Orgs |-> 0] /\ executed' = FALSE
  /\ alive_at_start' = Cardinality({k \in 1..Len(population) : alive[population[k]]})
  /\ UNCHANGED <<organisms, fixation_time, current_update, config, lodvars, pending>>

\* p->execute(n, p, ea): opaque to the scheduler.  With at least one cycle it
\* may mark one organism of the population dead (itself or one it replaces)
\* and may append one offspring of p, announced by the inheritance hook; the
\* offspring starts with its parent's priority.
Execute(p, n) ==
  \E victim \in {0} \cup Range(population), birth \in BOOLEAN :
    /\ n = 0 => (victim = 0 /\ ~birth)
    /\ victim # 0 => alive[victim]
    /\ birth => created < MaxOrg
    /\ IF birth
       THEN LET o == created + 1 IN
            /\ created' = o
            /\ parents' = LodEvent({p}, o, parents)
            /\ depth' = [depth EXCEPT ![o] = depth[p] + 1]
            /\ prio2' = [prio2 EXCEPT ![o] = prio2[p]]
            /\ alive' = [x \in Orgs |-> IF x = o THEN TRUE
                                        ELSE IF x = victim THEN FALSE ELSE alive[x]]
            /\ population' = Append(population, o)
       ELSE /\ alive' = [x \in Orgs |-> IF x = victim THEN FALSE ELSE alive[x]]
            /\ UNCHANGED <<population, prio2, parents, created, depth>>

\* one iteration of the while loop, with the value the division gave
LoopBody(period) ==
  /\ IF NewPeriod(period)
     THEN updates' = Append(updates, period)
     ELSE updates' = updates
  /\ last_period' = period
  /\ LET p == population[i + 1] IN
       IF IsAlive(p)
       THEN LET n == CastSizeT(Acc(p)) IN
            /\ Execute(p, n)
            /\ executed' = TRUE
            /\ consumed' = consumed + n
            /\ deadcount' = deadcount
            /\ lastn' = n
            /\ granted' = [x \in Orgs |-> IF ~alive'[x] THEN 0
                                          ELSE IF x = p THEN granted[x] + n ELSE granted[x]]
       ELSE /\ deadcount' = deadcount + 1
            /\ UNCHANGED <<population, organisms, consumed, lastn, granted, executed>>
  /\ maxpos' = IF i + 1 > maxpos THEN i + 1 ELSE maxpos
  /\ i' = NextIndex(i)
  /\ odd' = ~odd
  /\ pc' = "loop"
  /\ UNCHANGED <<N, budget, ncycles_per_period, fixation_time, current_update, config,
                 alive_at_start, lodvars, pending>>

\* consumed/ncycles_per_period with a non-zero divisor
LoopStep ==
  /\ pc = "loop" /\ LoopCond
  /\ ncycles_per_period # 0
  /\ LoopBody(consumed \div ncycles_per_period)

\* consumed/ncycles_per_period with divisor 0 is undefined: the division traps
\* (SIGFPE, as on x86)
LoopDivTrap ==
  /\ pc = "loop" /\ LoopCond
  /\ ncycles_per_period = 0
  /\ pc' = "trap"
  /\ UNCHANGED <<population, organisms, fixation_time, current_update, config,
                 locals, ghosts, lodvars, pending>>

\* ... or it yields 0 and the iteration goes on (as on processors whose
\* divide instruction does not trap)
LoopDivAny ==
  /\ pc = "loop" /\ LoopCond
  /\ ncycles_per_period = 0
  /\ LoopBody(0)

\* after the loop: the population is replaced by its living members
TickEnd ==
  /\ pc = "loop" /\ ~LoopCond
  /\ population' = Rebuild(population)
  /\ pc' = "done"
  /\ UNCHANGED <<organisms, fixation_time, current_update, config, locals, ghosts,
                 lodvars, pending>>

\* ---- track_fixation_events::operator(), the end-of-update event -------------
\* (the scheduler has returned: its locals are gone, and are put back to
\* their initial values)
TrackFixation ==
  /\ pc = "done"
  /\ Len(population) > 0
  /\ LET lod == Lineage(Mrca(population)) IN
       fixation_time' = StampWalk(lod, Len(lod), fixation_time, current_update)
  /\ current_update' = current_update + 1
  /\ pc' = "idle"
  /\ N' = 0 /\ budget' = 0 /\ ncycles_per_period' = 0
  /\ consumed' = 0 /\ last_period' = -1 /\ i' = 0 /\ deadcount' = 0
  /\ updates' = <<>> /\ maxpos' = 0 /\ lastn' = 0 /\ odd' = FALSE
  /\ granted' = [x \in Orgs |-> 0] /\ alive_at_start' = 0 /\ executed' = FALSE
  /\ UNCHANGED <<population, organisms, config, lodvars, pending>>

\* mrca's assert(ea.population().size()>0) fails on an empty population
MrcaAssert ==
  /\ pc = "done"
  /\ Len(population) = 0
  /\ pc' = "abort"
  /\ UNCHANGED <<population, organisms, fixation_time, current_update, config,
                 locals, ghosts, lodvars, pending>>

Next ==
  \/ TickStart
  \/ LoopStep
  \/ LoopDivTrap
  \/ LoopDivAny
  \/ TickEnd
  \/ TrackFixation
  \/ MrcaAssert

Spec == Init /\ [][Next]_vars

\* the loop and the events are scheduled without pause
FairSpec == Spec /\ WF_vars(Next)

\* ---- uniq and runiq on a stored lineage ---------------------------------------
\* the scheduler at rest, before any update
SchedulerAtRest ==
  /\ fixation_time = [x \in Orgs |-> Unset]
  /\ current_update = 0
  /\ N = 0 /\ budget = 0 /\ ncycles_per_period = 0
  /\ consumed = 0 /\ last_period = -1 /\ i = 0 /\ deadcount = 0
  /\ pc = "idle"
  /\ updates = <<>> /\ maxpos = 0 /\ lastn = 0 /\ odd = FALSE
  /\ granted = [x \in Orgs |-> 0] /\ alive_at_start = 0 /\ executed = FALSE

\* A stored lineage is a chain of distinct organisms, numbered from the
\* ancestor on, each with a representation; the population plays no part.
LodInit ==
  /\ time_slice = 1 /\ resource_slice = 1 /\ pop_size = 1 /\ accessor = "fixed"
  /\ created = 0 /\ population = <<>>
  /\ parents = [x \in Orgs |-> {}]
  /\ depth = [x \in Orgs |-> 0]
  /\ alive = [x \in Orgs |-> FALSE]
  /\ prio2 = [x \in Orgs |-> 0]
  /\ SchedulerAtRest
  /\ \E len \in 0..MaxLen : _lod = [k \in 1..len |-> k]
  /\ repr \in [Nodes -> 1..MaxRepr]
  /\ lod_before = <<>> /\ lodop = "none" /\ again = FALSE
  /\ pending = <<>>

\* a call of uniq on the stored lineage
DoUniq ==
  /\ _lod' = Uniq(_lod)
  /\ lod_before' = _lod
  /\ lodop' = "uniq"
  /\ again' = (lodop = "uniq")
  /\ UNCHANGED <<population, organisms, fixation_time, current_update, config,
                 locals, pc, ghosts, repr, pending>>

\* a call of runiq on the stored lineage
DoRuniq ==
  /\ _lod' = Runiq(_lod)
  /\ lod_before' = _lod
  /\ lodop' = "runiq"
  /\ again' = (lodop = "runiq")
  /\ UNCHANGED <<population, organisms, fixation_time, current_update, config,
                 locals, pc, ghosts, repr, pending>>

LodNext ==
  \/ DoUniq
  \/ DoRuniq

LodSpec == LodInit /\ [][LodNext]_vars

\* ---- the inheritance hook and lineage extraction ------------------------------
\* The population is seeded with the ancestor; nothing is scheduled.
HookInit ==
  /\ time_slice = 1 /\ resource_slice = 1 /\ pop_size = 1 /\ accessor = "fixed"
  /\ created = 1
  /\ population = <<1>>
  /\ parents = [x \in Orgs |-> {}]
  /\ depth = [x \in Orgs |-> 0]
  /\ alive = [x \in Orgs |-> x = 1]
  /\ prio2 = [x \in Orgs |-> IF x = 1 THEN 2 ELSE 0]
  /\ SchedulerAtRest
  /\ LodUnused

\* the reproduction collaborator makes an offspring of one or more members
\* of the population; its parent set is empty until the hook is called
Birth(ps) ==
  /\ pending = <<>>
  /\ created < MaxOrg
  /\ ps # {}
  /\ LET o == created + 1
         first == CHOOSE q \in ps : \A r \in ps : q <= r
     IN /\ created' = o
        /\ alive' = [alive EXCEPT ![o] = TRUE]
        /\ prio2' = [prio2 EXCEPT ![o] = prio2[first]]
        /\ depth' = [depth EXCEPT ![o] = depth[first] + 1]
        /\ pending' = <<ps, o, 0>>
  /\ UNCHANGED <<population, parents, fixation_time, current_update, config,
                 locals, pc, ghosts, lodvars>>

\* lod_event::operator()(parents, offspring, ea), called for the birth in
\* progress
Hook ==
  /\ pending # <<>>
  /\ pending[3] < MaxHookCalls
  /\ parents' = LodEvent(pending[1], pending[2], parents)
  /\ pending' = <<pending[1], pending[2], pending[3] + 1>>
  /\ UNCHANGED <<population, alive, prio2, created, depth, fixation_time,
                 current_update, config, locals, pc, ghosts, lodvars>>

\* the offspring enters the population
Insert ==
  /\ pending # <<>>
  /\ pending[3] >= 1
  /\ population' = Append(population, pending[2])
  /\ pending' = <<>>
  /\ UNCHANGED <<organisms, fixation_time, current_update, config, locals, pc,
                 ghosts, lodvars>>

\* _lod = lineage(p) for a member p of the population
ExtractLineage(p) ==
  /\ pending = <<>>
  /\ _lod' = Lineage(p)
  /\ lod_before' = _lod
  /\ lodop' = "lineage"
  /\ again' = FALSE
  /\ UNCHANGED <<population, organisms, fixation_time, current_update, config,
                 locals, pc, ghosts, repr, pending>>

HookNext ==
  \/ \E ps \in SUBSET Range(population) : Birth(ps)
  \/ Hook
  \/ Insert
  \/ \E p \in Range(population) : ExtractLineage(p)

HookSpec == HookInit /\ [][HookNext]_vars

\* ---- one update of an arbitrary population ------------------------------------
\* The scheduler is handed a population of founders, some of which may have
\* been marked dead since the last update, each with its own priority.
TickInit ==
  /\ time_slice \in 1..MaxTimeSlice
  /\ resource_slice \in 1..MaxResSlice
  /\ pop_size \in 1..MaxPopSize
  /\ accessor \in {"fixed", "priority"}
  /\ created \in 0..MaxOrg
  /\ population = [k \in 1..created |-> k]
  /\ parents = [x \in Orgs |-> {}]
  /\ depth = [x \in Orgs |-> 0]
  /\ alive \in [Orgs -> BOOLEAN]
  /\ \A x \in Orgs : x > created => ~alive[x]
  /\ prio2 \in [Orgs -> PrioChoices \cup {0}]
  /\ \A x \in Orgs : prio2[x] = 0 <=> x > created
  /\ SchedulerAtRest
  /\ LodUnused

TickNext ==
  \/ TickStart
  \/ LoopStep
  \/ LoopDivTrap
  \/ LoopDivAny
  \/ TickEnd

TickSpec == TickInit /\ [][TickNext]_vars

\* ---- properties ------------------------------------------------------------------
Ceil(a, b) == (a + b - 1) \div b

\* the organisms every member of the population descends from (or is)
CommonAncestors(pop) == {c \in Orgs : \A k \in 1..Len(pop) : c \in AncOrSelf(pop[k])}

\* the deepest of them: the one whose own chain is exactly the common chain
DeepestCommon(pop) == CHOOSE c \in CommonAncestors(pop) : AncOrSelf(c) = CommonAncestors(pop)

\* C1 as stated: when the loop has exited, the cycles consumed are at most
\* budget = time_slice * min(N, max_population_size), whatever the accessor.
C1_ConsumedWithinBudget ==
  (pc = "done" /\ ncycles_per_period >= 1) => consumed <= budget

\* C1 amended: the cycles consumed before the latest execute call are below
\* the budget, so consumed <= budget - 1 + the latest quantum; with the
\* fixed-priority accessor consumed <= budget.
C1_ConsumedWithinBudgetPlusQuantum ==
  /\ consumed > 0 => consumed - lastn < budget
  /\ accessor = "fixed" => consumed <= budget

\* a tick that ended above its budget, by a quantum of 2 granted at budget - 1
C1_Witness ==
  pc = "done" /\ accessor = "priority" /\ lastn = 2 /\ consumed = budget + 1

\* C2: every tick terminates when period_length >= 1: a running loop
\* eventually exits, also when the living are granted quanta of 0 cycles.
C2_TickTerminates ==
  (pc = "loop" /\ ncycles_per_period >= 1) ~> (pc = "done")

\* C3: after a tick the population holds no organism whose alive flag is false.
C3_NoDeadAfterTick ==
  pc = "done" => \A k \in 1..Len(population) : alive[population[k]]

\* a finished tick in which an organism died and an offspring was appended
C3_Witness ==
  /\ pc = "done" /\ current_update = 0
  /\ \E x \in 1..created : ~alive[x]
  /\ \E k \in 1..Len(population) : population[k] > 1

\* C4: the round-robin index stays in 0..N-1, N the size at tick start, and
\* no organism appended during the tick (a position above N) is looked up or
\* executed in it.
C4_OffspringNotVisited ==
  pc \in {"loop", "done"} =>
    /\ N > 0 => i \in 0..(N - 1)
    /\ maxpos <= N

\* the loop ran its budget out over a population that grew under it
C4_Witness ==
  /\ pc = "loop" /\ ~LoopCond
  /\ N >= 1 /\ Len(population) > N
  /\ maxpos = N
  /\ consumed > N

\* C5: for a non-empty population mrca returns the deepest node on the
\* ancestor-or-self chain of every member.
C5_MrcaIsDeepestCommon ==
  (pc = "done" /\ Len(population) > 0) =>
    Mrca(population) = DeepestCommon(population)

\* C6: within a tick the periods for which the resource pool is advanced are
\* 0,1,2,...,k: none repeated, none skipped.
C6_PeriodsInSequence ==
  ncycles_per_period >= 1 => updates = [k \in 1..Len(updates) |-> k - 1]

\* C7 as stated: in every tick the resource pool is advanced exactly
\* ceil(budget / period_length) times.
C7_AdvancesExactlyCeil ==
  (pc = "done" /\ ncycles_per_period >= 1) =>
    Len(updates) = Ceil(budget, ncycles_per_period)

\* C7 amended: with period_length >= 1 the resource pool is advanced at most
\* ceil(budget / period_length) times in a tick, and exactly that many times
\* when the fixed-priority accessor is used and the loop ends with the budget
\* consumed.
C7_AdvancesAtMostCeil ==
  ncycles_per_period >= 1 =>
    /\ Len(updates) <= Ceil(budget, ncycles_per_period)
    /\ (pc = "done" /\ accessor = "fixed" /\ consumed >= budget) =>
         Len(updates) = Ceil(budget, ncycles_per_period)

\* a fixed-priority tick that used its budget up over two periods of two cycles
C7_Witness ==
  /\ pc = "done" /\ accessor = "fixed" /\ ncycles_per_period >= 1
  /\ consumed = budget /\ ncycles_per_period = 2 /\ Len(updates) = 2

\* C8: lineage(x) ends in x, begins at an organism without parents, links
\* each element to the next as its parent, and has depth + 1 elements.
C8_LineageShape ==
  \A x \in 1..created :
    LET l == Lineage(x) IN
      /\ l[Len(l)] = x
      /\ parents[l[1]] = {}
      /\ \A k \in 1..(Len(l) - 1) : parents[l[k + 1]] = {l[k]}
      /\ Len(l) = depth[x] + 1

\* an organism two parent steps below the ancestor
C8_Witness ==
  \E x \in 1..created : depth[x] = 2 /\ Len(Lineage(x)) = 3 /\ Lineage(x)[1] = 1

\* C9: a fixation_time that is set is never changed by a later step.
C9_FixationTimeWrittenOnce ==
  [][\A x \in Orgs : fixation_time[x] # Unset => fixation_time'[x] = fixation_time[x]]_vars

\* the tracker ran twice and stamped at both updates
C9_Witness ==
  /\ current_update = 2
  /\ \E x, y \in 1..created : fixation_time[x] = 0 /\ fixation_time[y] = 1

\* C10: along every lineage the ancestors of a stamped node are stamped, and
\* with fixation times that are not later than the node's.
C10_FixationTimesMonotone ==
  \A x \in 1..created :
    LET l == Lineage(x) IN
      \A j, k \in 1..Len(l) :
        (j < k /\ fixation_time[l[k]] # Unset) =>
          /\ fixation_time[l[j]] # Unset
          /\ fixation_time[l[j]] <= fixation_time[l[k]]

\* a node stamped at update 1 whose parent was stamped at update 0
C10_Witness ==
  \E x \in 2..created :
    /\ fixation_time[x] = 1
    /\ fixation_time[LodParent(x)] = 0

\* C11 as stated: for a lineage of length >= 1, after uniq and after runiq
\* the first node and the last node are the organisms they were before.
C11_EndpointsKept ==
  (lodop \in {"uniq", "runiq"} /\ Len(lod_before) >= 1) =>
    /\ Len(_lod) >= 1
    /\ _lod[1] = lod_before[1]
    /\ _lod[Len(_lod)] = lod_before[Len(lod_before)]

\* C11 amended: for a lineage of length >= 1, uniq leaves the last node and
\* runiq the first node the organism it was; the other endpoint is an
\* organism with the representation the old endpoint had.
C11_OneEndpointKept ==
  (lodop \in {"uniq", "runiq"} /\ Len(lod_before) >= 1) =>
    /\ Len(_lod) >= 1
    /\ lodop = "uniq" => _lod[Len(_lod)] = lod_before[Len(lod_before)]
    /\ lodop = "runiq" => _lod[1] = lod_before[1]
    /\ repr[_lod[1]] = repr[lod_before[1]]
    /\ repr[_lod[Len(_lod)]] = repr[lod_before[Len(lod_before)]]

\* uniq erased the ancestor of a lineage of three and kept its tip
C11_Witness ==
  /\ lodop = "uniq" /\ Len(lod_before) = 3 /\ Len(_lod) = 2
  /\ _lod[1] # lod_before[1]
  /\ _lod[2] = lod_before[3]

\* C12: uniq and runiq are idempotent: a second call in a row leaves the
\* lineage as the first call left it.
C12_Idempotent ==
  again => _lod = lod_before

\* a second runiq in a row, on a lineage whose ancestor and its successor
\* have the same representation
C12_Witness ==
  /\ again /\ lodop = "runiq"
  /\ Len(_lod) >= 2
  /\ repr[_lod[1]] = repr[_lod[2]]

\* C13: when every organism of the population is dead at the start of a
\* tick (period_length >= 1), the tick calls execute for none, consumes 0
\* cycles and ends after one pass of N skipped organisms.
C13_AllDeadTickIsEmpty ==
  (pc \in {"loop", "done"} /\ alive_at_start = 0 /\ ncycles_per_period >= 1) =>
    /\ ~executed
    /\ consumed = 0
    /\ deadcount <= N
    /\ N > 0 => i = deadcount % N
    /\ pc = "done" => (deadcount = N /\ population = <<>>)

\* a finished tick over three organisms, all dead at its start
C13_Witness ==
  /\ pc = "done" /\ alive_at_start = 0 /\ ncycles_per_period >= 1
  /\ N = 3 /\ deadcount = 3 /\ consumed = 0

\* C14: lineage extraction that reaches a node with more than one parent
\* fails and returns no lineage: a lineage that was returned holds no node
\* with more than one parent.
C14_MultipleParentsRejected ==
  lodop = "lineage" => \A k \in 1..Len(_lod) : Cardinality(parents[_lod[k]]) <= 1

\* C16: a call of the inheritance hook with (parents, offspring) leaves every
\* member of parents in the offspring's parent set and changes nothing else:
\* not the parent set or the state of any other organism, not the population.
C16_HookFrame ==
  [][(pending # <<>> /\ pending' # <<>> /\ pending'[3] = pending[3] + 1) =>
       /\ pending[1] \subseteq parents'[pending[2]]
       /\ parents'[pending[2]] \subseteq parents[pending[2]] \cup pending[1]
       /\ \A x \in Orgs \ {pending[2]} : parents'[x] = parents[x]
       /\ population' = population
       /\ alive' = alive /\ prio2' = prio2 /\ fixation_time' = fixation_time
       /\ created' = created]_vars

\* the hook has been called once for an offspring of two parents
C16_Witness ==
  /\ pending # <<>>
  /\ pending[3] = 1
  /\ Cardinality(pending[1]) = 2
  /\ parents[pending[2]] = pending[1]

\* C15: with N > 0 and period_length = 0 the tick fails before its loop
\* starts: no organism is executed and the resource pool is not advanced.
C15_ZeroPeriodRejected ==
  (N > 0 /\ ncycles_per_period = 0) => (~executed /\ updates = <<>>)

\* the position of x in pop
Pos(pop, x) == CHOOSE k \in 1..Len(pop) : pop[k] = x

\* C17: the population after the rebuild consists of exactly the living
\* organisms of the population before it (offspring appended in the tick
\* included), each once, in the relative order they had.
C17_RebuildKeepsLivingInOrder ==
  [][(pc = "loop" /\ pc' = "done") =>
       /\ Range(population') = {x \in Range(population) : alive[x]}
       /\ Len(population') = Cardinality(Range(population'))
       /\ \A j, k \in 1..Len(population') :
            j < k => Pos(population, population'[j]) < Pos(population, population'[k])]_vars

\* a rebuilt population of a survivor of the tick's two members and an
\* offspring born in the tick, the other member having died in it
C17_Witness ==
  /\ pc = "done" /\ N = 2 /\ alive_at_start = 2
  /\ Len(population) = 2
  /\ population[1] <= N /\ population[2] > N
  /\ \E x \in 1..N : ~alive[x]

\* C18: with the fixed-priority accessor, N <= max_population_size and no
\* organism dying in the tick (period_length >= 1), every one of the N
\* organisms is granted exactly time_slice cycles in calls of one cycle,
\* time_slice * N in total, and an offspring appended in the tick none.
C18_FixedTimeSliceEach ==
  (/\ pc = "done" /\ accessor = "fixed" /\ ncycles_per_period >= 1
   /\ N <= pop_size
   /\ alive_at_start = N /\ \A x \in 1..created : alive[x]) =>
    /\ consumed = time_slice * N
    /\ lastn = 1
    /\ \A x \in 1..N : granted[x] = time_slice
    /\ \A x \in (N + 1)..created : granted[x] = 0

\* two organisms were granted three cycles each while an offspring was born
C18_Witness ==
  /\ pc = "done" /\ accessor = "fixed" /\ ncycles_per_period >= 1
  /\ N = 2 /\ pop_size = 2 /\ time_slice = 3
  /\ alive_at_start = 2 /\ created = 3 /\ \A x \in 1..3 : alive[x]
  /\ granted[1] = 3 /\ granted[2] = 3

\* C19: dead_count counts visits to dead organisms, never exceeds N, and the
\* loop ends when it reaches N, whatever is left of the budget and whoever
\* is still alive; a loop that ended below its budget ended so.
C19_StopsAtDeadcountN ==
  /\ deadcount <= N
  /\ (pc = "loop" /\ deadcount = N) => ~LoopCond
  /\ (pc = "done" /\ consumed < budget) => deadcount = N

\* three organisms, two of them dead from the start: the loop ended at
\* dead_count 3 with budget left and the third organism alive
C19_Witness ==
  /\ pc = "done" /\ N = 3 /\ alive_at_start = 1
  /\ deadcount = 3 /\ consumed < budget
  /\ Len(population) = 1

\* C20: in a tick that consumes its full budget with the fixed-priority
\* accessor (period_length >= 1), the resource pool is advanced exactly
\* resource_slice times.
C20_AdvancesEqualResourceSlice ==
  (pc = "done" /\ accessor = "fixed" /\ ncycles_per_period >= 1 /\ consumed >= budget) =>
    Len(updates) = resource_slice

\* the nodes of l at the positions that satisfy Keep, in the order of l
Kept(l, Keep(_)) ==
  LET ks == SelectSeq([k \in 1..Len(l) |-> k], Keep)
  IN [j \in 1..Len(ks) |-> l[ks[j]]]

\* no two adjacent nodes of l have equal representations
NoAdjacentEqual(l) == \A k \in 1..(Len(l) - 1) : repr[l[k]] # repr[l[k + 1]]

\* C21: after uniq no two adjacent nodes have equal representations, and
\* what remains is, in the old order, the last node of every maximal run of
\* consecutive nodes of equal representation.
C21_UniqKeepsLastOfRuns ==
  lodop = "uniq" =>
    /\ NoAdjacentEqual(_lod)
    /\ _lod = Kept(lod_before,
                   LAMBDA k : k = Len(lod_before)
                              \/ repr[lod_before[k]] # repr[lod_before[k + 1]])

\* uniq cut a lineage of four nodes in two runs down to the last of each
C21_Witness ==
  /\ lodop = "uniq" /\ lod_before = <<1, 2, 3, 4>>
  /\ repr[1] = repr[2] /\ repr[2] # repr[3] /\ repr[3] = repr[4]
  /\ _lod = <<2, 4>>

\* C22: after runiq no two adjacent nodes have equal representations, the
\* pair of the root and its successor included; what remains is the earliest
\* node of every maximal run of equal representation; the root is kept.
C22_RuniqKeepsEarliestOfRuns ==
  lodop = "runiq" =>
    /\ NoAdjacentEqual(_lod)
    /\ _lod = Kept(lod_before,
                   LAMBDA k : k = 1 \/ repr[lod_before[k]] # repr[lod_before[k - 1]])
    /\ Len(lod_before) >= 1 => _lod[1] = lod_before[1]

\* C23: a node stamped with a fixation time is an ancestor-or-self of every
\* organism of the population at the tick of the stamp and at every later
\* tick.
C23_StampedIsCommonAncestor ==
  \A x \in 1..created :
    fixation_time[x] # Unset =>
      \A k \in 1..Len(population) : x \in AncOrSelf(population[k])

\* C24 as stated: a second call of the inheritance hook for the same birth
\* leaves the offspring's parent set with more entries than the first.
C24_SecondCallAddsEntries ==
  [][(pending # <<>> /\ pending' # <<>>
      /\ pending[3] >= 1 /\ pending'[3] = pending[3] + 1) =>
       Cardinality(parents'[pending[2]]) > Cardinality(parents[pending[2]])]_vars

\* C24 amended: a second call of the inheritance hook for the same birth
\* changes no parent set: the offspring's parent set is the set of its
\* parents, one entry for each, as after the first call.
C24_SecondCallChangesNothing ==
  [][(pending # <<>> /\ pending' # <<>>
      /\ pending[3] >= 1 /\ pending'[3] = pending[3] + 1) =>
       /\ parents' = parents
       /\ parents'[pending[2]] = pending[1]]_vars

\* the hook has been called twice for an offspring of one parent, which has
\* one parent entry
C24_Witness ==
  /\ pending # <<>>
  /\ pending[3] = 2
  /\ Cardinality(pending[1]) = 1
  /\ parents[pending[2]] = pending[1]

====
